---- MODULE Spec2Model ----
(***************************************************************************)
(* Model of the audit-log event builder/publisher (package auditlog,      *)
(* event.go): an Event value, the metadata map its Metadata field points   *)
(* to, the process-wide globalMetadata, and the transport that Publish     *)
(* hands the serialized record to.                                         *)
(*                                                                         *)
(* A Go map is a reference: copying an Event (a value receiver) copies the *)
(* reference, not the entries.  The model keeps the maps in `heap` and the *)
(* reference in event.Metadata.                                            *)
(*                                                                         *)
(* Beside it, the sso.Client and its GetAuthorizationURL (package sso).    *)
(***************************************************************************)
EXTENDS Integers, Sequences, FiniteSets, TLC

VARIABLES
    pc,              \* "start" before the constructor ran, "built" after
    event,           \* the caller's Event variable
    heap,            \* the allocated maps, by reference (1..Len(heap))
    globalMetadata,  \* the process-wide default metadata
    now,             \* the wall clock read by time.Now()
    client,          \* the transport: calls made, last body received, last result
    ret,             \* the last call on the event: operation, argument, result
    sso,             \* the caller's sso.Client
    ssoRet           \* the last call on the sso.Client: options, URL and error returned

vars == <<pc, event, heap, globalMetadata, now, client, ret, sso, ssoRet>>

----------------------------------------------------------------------------
(* Bounds of the model *)

\* The clock runs from 1 to MaxClock.
MaxClock == 2

\* At most MaxPublish records are handed to the transport.
MaxPublish == 2

\* NewEventWithMetadata seeds an event with MetadataCap - Slack .. MetadataCap
\* distinct literal entries.
Slack == 1

(* Program constants *)

\* len(e.Metadata) >= 500
MetadataCap == 500

----------------------------------------------------------------------------
(* Values *)

Nil == "nil"
ErrCapacity == "attempted to add over 500 properties to metadata, ignoring"
ErrMarshal == "json: unsupported type"
ErrTransport == "transport error"

\* interface{} values: a string, a value implementing Auditable, a channel
\* (which encoding/json cannot encode).
Lit(s) == [kind |-> "string", name |-> s, id |-> ""]
Aud(n, i) == [kind |-> "auditable", name |-> n, id |-> i]
Chan == [kind |-> "chan", name |-> "", id |-> ""]

ToAuditableName(v) == v.name
ToAuditableID(v) == v.id

user == Aud("user@email.com", "user_1")
tweet == Aud("What time is the event", "tweet_5")
Auditables == {user, tweet}

\* The zero value Event{}; Metadata 0 is the nil map.
ZeroEvent ==
    [Group |-> "", Action |-> "", ActionType |-> "", ActorName |-> "",
     ActorID |-> "", Location |-> "", OccuredAt |-> 0, TargetName |-> "",
     TargetID |-> "", Metadata |-> 0]

EmptyMap == [k \in {} |-> Nil]

len(m) == Cardinality(DOMAIN m)

\* m[k] = v on a Go map.
MapSet(m, k, v) == [x \in DOMAIN m \cup {k} |-> IF x = k THEN v ELSE m[x]]

\* The map the event's Metadata field refers to.
Metadata == heap[event.Metadata]

\* No call was made yet.  The argument of a call is kept as a record or map.
NoCall == [op |-> "none", arg |-> EmptyMap, order |-> <<>>, pre |-> EmptyMap, err |-> Nil]

----------------------------------------------------------------------------
(* addMetadata and AddMetadata *)

NameKey(key) == key \o "_name"
IdKey(key) == key \o "_id"

\* addMetadata testing the cap with > in place of >=.
addMetadataOffByOne(m, key, value) ==
    IF len(m) > MetadataCap
    THEN [err |-> ErrCapacity, m |-> m]
    ELSE IF value.kind = "auditable"
    THEN [err |-> Nil,
          m |-> MapSet(MapSet(m, NameKey(key), Lit(ToAuditableName(value))),
                       IdKey(key), Lit(ToAuditableID(value)))]
    ELSE [err |-> Nil, m |-> MapSet(m, key, value)]

\* addMetadata writing the identifier under both expanded keys.
addMetadataIdTwice(m, key, value) ==
    IF len(m) >= MetadataCap
    THEN [err |-> ErrCapacity, m |-> m]
    ELSE IF value.kind = "auditable"
    THEN [err |-> Nil,
          m |-> MapSet(MapSet(m, NameKey(key), Lit(ToAuditableID(value))),
                       IdKey(key), Lit(ToAuditableID(value)))]
    ELSE [err |-> Nil, m |-> MapSet(m, key, value)]

\* func (e Event) addMetadata(key, value) error, on the map e.Metadata refers to.
addMetadata(m, key, value) ==
    IF len(m) >= MetadataCap
    THEN [err |-> ErrCapacity, m |-> m]
    ELSE IF value.kind = "auditable"
    THEN [err |-> Nil,
          m |-> MapSet(MapSet(m, NameKey(key), Lit(ToAuditableName(value))),
                       IdKey(key), Lit(ToAuditableID(value)))]
    ELSE [err |-> Nil, m |-> MapSet(m, key, value)]

\* The loop of AddMetadata over the entries order[lo..hi], in the order the
\* range statement yields them; it stops at the first error.  The range is
\* evaluated by halves, which gives the result of going entry by entry.
RECURSIVE AddMetadataRange(_, _, _, _, _)
AddMetadataRange(m, metadata, order, lo, hi) ==
    IF lo > hi THEN [err |-> Nil, m |-> m]
    ELSE IF lo = hi THEN addMetadata(m, order[lo], metadata[order[lo]])
    ELSE LET mid == (lo + hi) \div 2
             r == AddMetadataRange(m, metadata, order, lo, mid)
         IN  IF r.err # Nil THEN r
             ELSE AddMetadataRange(r.m, metadata, order, mid + 1, hi)

AddMetadataLoop(m, metadata, order) ==
    AddMetadataRange(m, metadata, order, 1, Len(order))

\* The i-th seed key.
SeedKey(i) == "seed" \o ToString(i)

\* One sequence holding the elements of S (the seed keys in their own order).
RECURSIVE SetToSeq(_)
SetToSeq(S) ==
    IF S = {} THEN <<>>
    ELSE IF S = {SeedKey(i) : i \in 1..Cardinality(S)}
    THEN [i \in 1..Cardinality(S) |-> SeedKey(i)]
    ELSE LET x == CHOOSE x \in S : TRUE IN <<x>> \o SetToSeq(S \ {x})

RECURSIVE Perms(_)
Perms(S) ==
    IF S = {} THEN {<<>>}
    ELSE UNION {{<<x>> \o p : p \in Perms(S \ {x})} : x \in S}

\* The orders in which `for k, v := range metadata` may yield the entries: Go
\* leaves the order unspecified.  When no entry is Auditable and the batch
\* fits under the cap, every order yields the same map and no error, and one
\* order stands for all.
RangeOrders(m, metadata) ==
    IF /\ \A k \in DOMAIN metadata : metadata[k].kind # "auditable"
       /\ len(m) + len(metadata) <= MetadataCap
    THEN {SetToSeq(DOMAIN metadata)}
    ELSE Perms(DOMAIN metadata)

----------------------------------------------------------------------------
(* Inputs *)

Actions == {"user.login"}
Create == "C"
ActionTypes == {Create}

\* os.Hostname(): the host's name, or an error.
Hostnames == {[name |-> "app-fe1", err |-> Nil], [name |-> "", err |-> "no hostname"]}

\* A map of n distinct literal entries.
Seed(n) == [k \in {SeedKey(i) : i \in 1..n} |-> Lit("seeded")]

\* The sizes of the maps NewEventWithMetadata is called with.
SeedSizes == (MetadataCap - Slack)..MetadataCap

\* The maps AddMetadata is called with: a literal and an Auditable under the
\* same key, an Auditable beside a literal under its expanded name key, a
\* literal under the key of the default metadata, a value with no encoding.
Batches ==
    { "parent_tweet" :> Lit("tweet_5"),
      "parent_tweet" :> tweet,
      "parent_tweet" :> user,
      ("parent_tweet" :> tweet) @@ ("parent_tweet_name" :> Lit("literal name")),
      "hostname" :> Lit("per-event host"),
      "body" :> Chan }

\* The maps AddMetadata is called with on a seeded event: three new literal
\* entries, an Auditable, a literal under a key the seed holds.
CapBatches ==
    { ("a" :> Lit("1")) @@ ("b" :> Lit("2")) @@ ("c" :> Lit("3")),
      "parent_tweet" :> tweet,
      SeedKey(1) :> Lit("overwritten") }

\* The values SetMetadata may have installed before any event is built.
GlobalMetadataChoices == {EmptyMap, "hostname" :> Lit("app-fe1.aws.amazon.com")}

\* *http.Request: RemoteAddr, Method, URL and Header.
URLs == {[Scheme |-> "http", Host |-> "localhost", Path |-> "/tweet/update"]}
HeaderChoices ==
    { EmptyMap,
      "User-Agent" :> "Mozilla/5.0",
      "X-Request-ID" :> "f9ed4675",
      ("User-Agent" :> "Mozilla/5.0") @@ ("X-Request-ID" :> "f9ed4675"),
      ("User-Agent" :> "") @@ ("X-Request-ID" :> "") }
Requests ==
    [RemoteAddr : {"172.31.255.255"}, Method : {"PUT"}, URL : URLs,
     Header : HeaderChoices]

\* func (u *URL) String() string, for a URL of scheme, host and path.
URLString(u) == u.Scheme \o "://" \o u.Host \o u.Path

\* func (h Header) Get(key string) string: "" when the header is absent.
HeaderGet(h, key) == IF key \in DOMAIN h THEN h[key] ELSE ""

----------------------------------------------------------------------------
(* Constructors *)

\* The Event value NewEvent returns, its Metadata the fresh map `ref`.
NewEventValue(action, actionType, h, ref) ==
    [ZeroEvent EXCEPT !.Action = action, !.ActionType = actionType,
                      !.Location = IF h.err # Nil THEN "" ELSE h.name,
                      !.OccuredAt = now, !.Metadata = ref]

Call(op, arg, order, pre, err) ==
    [op |-> op, arg |-> arg, order |-> order, pre |-> pre, err |-> err]

NewEvent(action, actionType) ==
    /\ pc = "start"
    /\ \E h \in Hostnames :
          event' = NewEventValue(action, actionType, h, Len(heap) + 1)
    /\ heap' = Append(heap, EmptyMap)
    /\ pc' = "built"
    /\ ret' = Call("NewEvent", EmptyMap, <<>>, EmptyMap, Nil)
    /\ UNCHANGED <<globalMetadata, now, client, sso, ssoRet>>

\* HTTPMetadata storing the User-Agent header also when it is empty.
HTTPMetadataAlways(r) ==
    LET base == ("http_method" :> Lit(r.Method)) @@
                ("request_url" :> Lit(URLString(r.URL)))
        withUA == MapSet(base, "user_agent", Lit(HeaderGet(r.Header, "User-Agent")))
        requestID == HeaderGet(r.Header, "X-Request-ID")
    IN  IF requestID # "" THEN MapSet(withUA, "request_id", Lit(requestID))
        ELSE withUA

\* The metadata NewEventWithHTTP builds from the request.
HTTPMetadata(r) ==
    LET base == ("http_method" :> Lit(r.Method)) @@
                ("request_url" :> Lit(URLString(r.URL)))
        userAgent == HeaderGet(r.Header, "User-Agent")
        withUA == IF userAgent # "" THEN MapSet(base, "user_agent", Lit(userAgent))
                  ELSE base
        requestID == HeaderGet(r.Header, "X-Request-ID")
    IN  IF requestID # "" THEN MapSet(withUA, "request_id", Lit(requestID))
        ELSE withUA

NewEventWithHTTP(action, actionType, r) ==
    /\ pc = "start"
    /\ \E h \in Hostnames :
          event' = [NewEventValue(action, actionType, h, Len(heap) + 1)
                        EXCEPT !.Location = r.RemoteAddr]
    /\ LET metadata == HTTPMetadata(r)
       IN  \E order \in RangeOrders(EmptyMap, metadata) :
              \* the error of AddMetadata is dropped
              /\ heap' = Append(heap, AddMetadataLoop(EmptyMap, metadata, order).m)
              /\ ret' = Call("NewEventWithHTTP", r, order, EmptyMap, Nil)
    /\ pc' = "built"
    /\ UNCHANGED <<globalMetadata, now, client, sso, ssoRet>>

NewEventWithMetadata(action, actionType, metadata) ==
    /\ pc = "start"
    /\ \E h \in Hostnames, order \in RangeOrders(EmptyMap, metadata) :
          LET r == AddMetadataLoop(EmptyMap, metadata, order)
          IN  /\ heap' = Append(heap, r.m)
              /\ IF r.err # Nil
                 THEN /\ event' = ZeroEvent
                      /\ pc' = "failed"
                 ELSE /\ event' = NewEventValue(action, actionType, h, Len(heap) + 1)
                      /\ pc' = "built"
              /\ ret' = Call("NewEventWithMetadata", metadata, order, EmptyMap, r.err)
    /\ UNCHANGED <<globalMetadata, now, client, sso, ssoRet>>

----------------------------------------------------------------------------
(* Setters *)

SetGroup(group) ==
    /\ pc = "built"
    /\ event' = [event EXCEPT !.Group = ToAuditableID(group)]
    /\ ret' = Call("SetGroup", group, <<>>, Metadata, Nil)
    /\ UNCHANGED <<pc, heap, globalMetadata, now, client, sso, ssoRet>>

\* SetActor keeping the actor a previous call has set.
SetActorOnce(actor) ==
    /\ pc = "built"
    /\ event' = IF event.ActorID = ""
                THEN [event EXCEPT !.ActorName = ToAuditableName(actor),
                                   !.ActorID = ToAuditableID(actor)]
                ELSE event
    /\ ret' = Call("SetActor", actor, <<>>, Metadata, Nil)
    /\ UNCHANGED <<pc, heap, globalMetadata, now, client, sso, ssoRet>>

SetActor(actor) ==
    /\ pc = "built"
    /\ event' = [event EXCEPT !.ActorName = ToAuditableName(actor),
                              !.ActorID = ToAuditableID(actor)]
    /\ ret' = Call("SetActor", actor, <<>>, Metadata, Nil)
    /\ UNCHANGED <<pc, heap, globalMetadata, now, client, sso, ssoRet>>

SetTarget(target) ==
    /\ pc = "built"
    /\ event' = [event EXCEPT !.TargetName = ToAuditableName(target),
                              !.TargetID = ToAuditableID(target)]
    /\ ret' = Call("SetTarget", target, <<>>, Metadata, Nil)
    /\ UNCHANGED <<pc, heap, globalMetadata, now, client, sso, ssoRet>>

SetLocation(location) ==
    /\ pc = "built"
    /\ event' = [event EXCEPT !.Location = location]
    /\ ret' = Call("SetLocation", [location |-> location], <<>>, Metadata, Nil)
    /\ UNCHANGED <<pc, heap, globalMetadata, now, client, sso, ssoRet>>

----------------------------------------------------------------------------
(* AddMetadata *)

\* AddMetadata on a receiver whose map is a copy too: the entries go to the
\* copy, which is dropped when the call returns.
AddMetadataOnCopy(metadata) ==
    /\ pc = "built"
    /\ LET e == event
       IN  \E order \in RangeOrders(heap[e.Metadata], metadata) :
              LET r == AddMetadataLoop(heap[e.Metadata], metadata, order)
              IN  /\ heap' = heap
                  /\ ret' = Call("AddMetadata", metadata, order, Metadata, r.err)
    /\ UNCHANGED <<pc, event, globalMetadata, now, client, sso, ssoRet>>

\* func (e Event) AddMetadata(metadata) error: e is a copy of the caller's
\* Event, whose Metadata refers to the caller's map.
AddMetadata(metadata) ==
    /\ pc = "built"
    /\ LET e == event
       IN  \E order \in RangeOrders(heap[e.Metadata], metadata) :
              LET r == AddMetadataLoop(heap[e.Metadata], metadata, order)
              IN  /\ heap' = [heap EXCEPT ![e.Metadata] = r.m]
                  /\ ret' = Call("AddMetadata", metadata, order, Metadata, r.err)
    /\ UNCHANGED <<pc, event, globalMetadata, now, client, sso, ssoRet>>

----------------------------------------------------------------------------
(* Publish *)

\* The merge keeping the event's own value where the key is already there.
RECURSIVE MergeGlobalKeep(_, _, _)
MergeGlobalKeep(m, global, order) ==
    IF order = <<>> THEN m
    ELSE MergeGlobalKeep(IF Head(order) \in DOMAIN m THEN m
                         ELSE MapSet(m, Head(order), global[Head(order)]),
                         global, Tail(order))

\* The merge replacing the event's metadata by the defaults.
MergeGlobalClobber(m, global, order) == global

\* for k, v := range globalMetadata { e.Metadata[k] = v }
RECURSIVE MergeGlobal(_, _, _)
MergeGlobal(m, global, order) ==
    IF order = <<>> THEN m
    ELSE MergeGlobal(MapSet(m, Head(order), global[Head(order)]), global, Tail(order))

\* time.Time as encoding/json writes it.
FormatTime(t) == "2019-05-01T01:15:5" \o ToString(t) \o "Z"

\* What encoding/json writes for a metadata value it can encode.
JSONValue(v) == [json |-> "string", s |-> v.name]

Encodable(v) == v.kind = "string"

\* Marshal stamping the record with the time of the call.
MarshalStampNow(e, m) ==
    IF \E k \in DOMAIN m : ~Encodable(m[k])
    THEN [err |-> ErrMarshal, body |-> EmptyMap]
    ELSE [err |-> Nil,
          body |-> [group |-> e.Group, action |-> e.Action,
                    action_type |-> e.ActionType, actor_name |-> e.ActorName,
                    actor_id |-> e.ActorID, location |-> e.Location,
                    occured_at |-> FormatTime(now),
                    target_name |-> e.TargetName, target_id |-> e.TargetID,
                    metadata |-> [k \in DOMAIN m |-> JSONValue(m[k])]]]

\* Marshal writing null for a value it cannot encode, without an error.
MarshalLenient(e, m) ==
    [err |-> Nil,
     body |-> [group |-> e.Group, action |-> e.Action,
               action_type |-> e.ActionType, actor_name |-> e.ActorName,
               actor_id |-> e.ActorID, location |-> e.Location,
               occured_at |-> FormatTime(e.OccuredAt),
               target_name |-> e.TargetName, target_id |-> e.TargetID,
               metadata |-> [k \in DOMAIN m |->
                                IF Encodable(m[k]) THEN JSONValue(m[k])
                                ELSE [json |-> "null", s |-> ""]]]]

\* json.Marshal(e): the record under its JSON field names, or an error when a
\* metadata value has no encoding.
Marshal(e, m) ==
    IF \E k \in DOMAIN m : ~Encodable(m[k])
    THEN [err |-> ErrMarshal, body |-> EmptyMap]
    ELSE [err |-> Nil,
          body |-> [group |-> e.Group, action |-> e.Action,
                    action_type |-> e.ActionType, actor_name |-> e.ActorName,
                    actor_id |-> e.ActorID, location |-> e.Location,
                    occured_at |-> FormatTime(e.OccuredAt),
                    target_name |-> e.TargetName, target_id |-> e.TargetID,
                    metadata |-> [k \in DOMAIN m |-> JSONValue(m[k])]]]

\* Publish calling the transport a second time when the first call fails.
PublishRetry ==
    /\ pc = "built"
    /\ client.calls < MaxPublish
    /\ LET e == event
           merged == MergeGlobal(heap[e.Metadata], globalMetadata,
                                 SetToSeq(DOMAIN globalMetadata))
           j == Marshal(e, merged)
       IN  /\ heap' = [heap EXCEPT ![e.Metadata] = merged]
           /\ IF j.err # Nil
              THEN /\ client' = client
                   /\ ret' = Call("Publish", EmptyMap, <<>>, Metadata, j.err)
              ELSE \E res \in {Nil, ErrTransport} :
                      /\ client' = [calls |-> client.calls +
                                                (IF res = Nil THEN 1 ELSE 2),
                                    body |-> j.body, res |-> res]
                      /\ ret' = Call("Publish", EmptyMap, <<>>, Metadata, res)
    /\ UNCHANGED <<pc, event, globalMetadata, now, sso, ssoRet>>

\* func (e Event) Publish() error.  client.PublishEvent answers nil or an error.
Publish ==
    /\ pc = "built"
    /\ client.calls < MaxPublish
    /\ LET e == event
           merged == MergeGlobal(heap[e.Metadata], globalMetadata,
                                 SetToSeq(DOMAIN globalMetadata))
           j == Marshal(e, merged)
       IN  /\ heap' = [heap EXCEPT ![e.Metadata] = merged]
           /\ IF j.err # Nil
              THEN /\ client' = client
                   /\ ret' = Call("Publish", EmptyMap, <<>>, Metadata, j.err)
              ELSE \E res \in {Nil, ErrTransport} :
                      /\ client' = [calls |-> client.calls + 1, body |-> j.body,
                                    res |-> res]
                      /\ ret' = Call("Publish", EmptyMap, <<>>, Metadata, res)
    /\ UNCHANGED <<pc, event, globalMetadata, now, sso, ssoRet>>

----------------------------------------------------------------------------
(* Package sso: strings and URLs *)

CharAt(s, i) == SubSeq(s, i, i)

HasPrefix(s, prefix) ==
    Len(s) >= Len(prefix) /\ SubSeq(s, 1, Len(prefix)) = prefix

HasSuffix(s, suffix) ==
    Len(s) >= Len(suffix) /\ SubSeq(s, Len(s) - Len(suffix) + 1, Len(s)) = suffix

\* strings.TrimSuffix
TrimSuffix(s, suffix) ==
    IF HasSuffix(s, suffix) THEN SubSeq(s, 1, Len(s) - Len(suffix)) ELSE s

\* strings.Index for a one-character substr, searching from position i;
\* 0 when there is none.
RECURSIVE IndexFrom(_, _, _)
IndexFrom(s, substr, i) ==
    IF i > Len(s) THEN 0
    ELSE IF CharAt(s, i) = substr THEN i
    ELSE IndexFrom(s, substr, i + 1)

Letters ==
    {"a", "b", "c", "d", "e", "f", "g", "h", "i", "j", "k", "l", "m",
     "n", "o", "p", "q", "r", "s", "t", "u", "v", "w", "x", "y", "z",
     "A", "B", "C", "D", "E", "F", "G", "H", "I", "J", "K", "L", "M",
     "N", "O", "P", "Q", "R", "S", "T", "U", "V", "W", "X", "Y", "Z"}

Digits == {"0", "1", "2", "3", "4", "5", "6", "7", "8", "9"}

ErrMissingScheme == "missing protocol scheme"
ErrInvalidURI == "invalid URI for request"
ErrEmptyURL == "empty url"
ErrIncomplete == "incomplete arguments: missing domain or provider"

\* The zero value url.URL{}.
ZeroURL == [Scheme |-> "", Opaque |-> "", Host |-> "", Path |-> "", RawQuery |-> ""]

\* net/url getScheme: the scheme is what precedes the first ":" when only
\* letters, and after the first character digits, "+", "-" and ".", precede it.
RECURSIVE getScheme(_, _)
getScheme(rawurl, i) ==
    IF i > Len(rawurl) THEN [scheme |-> "", rest |-> rawurl, err |-> Nil]
    ELSE LET c == CharAt(rawurl, i) IN
         IF c \in Letters THEN getScheme(rawurl, i + 1)
         ELSE IF c \in Digits \cup {"+", "-", "."}
              THEN IF i = 1 THEN [scheme |-> "", rest |-> rawurl, err |-> Nil]
                   ELSE getScheme(rawurl, i + 1)
         ELSE IF c = ":"
              THEN IF i = 1 THEN [scheme |-> "", rest |-> "", err |-> ErrMissingScheme]
                   ELSE [scheme |-> SubSeq(rawurl, 1, i - 1),
                         rest |-> SubSeq(rawurl, i + 1, Len(rawurl)),
                         err |-> Nil]
         ELSE [scheme |-> "", rest |-> rawurl, err |-> Nil]

\* url.ParseRequestURI of a string without "?": an absolute URI or an
\* absolute path, anything else is an error.
ParseRequestURI(rawurl) ==
    IF rawurl = "" THEN [u |-> ZeroURL, err |-> ErrEmptyURL]
    ELSE LET s == getScheme(rawurl, 1) IN
         IF s.err # Nil THEN [u |-> ZeroURL, err |-> s.err]
         ELSE IF ~HasPrefix(s.rest, "/")
              THEN IF s.scheme # ""
                   THEN [u |-> [ZeroURL EXCEPT !.Scheme = s.scheme, !.Opaque = s.rest],
                         err |-> Nil]
                   ELSE [u |-> ZeroURL, err |-> ErrInvalidURI]
         ELSE IF s.scheme # "" /\ HasPrefix(s.rest, "//")
              THEN LET authority == SubSeq(s.rest, 3, Len(s.rest))
                       i == IndexFrom(authority, "/", 1)
                   IN  [u |-> [ZeroURL EXCEPT
                                 !.Scheme = s.scheme,
                                 !.Host = IF i > 0 THEN SubSeq(authority, 1, i - 1)
                                          ELSE authority,
                                 !.Path = IF i > 0
                                          THEN SubSeq(authority, i, Len(authority))
                                          ELSE ""],
                        err |-> Nil]
         ELSE [u |-> [ZeroURL EXCEPT !.Scheme = s.scheme, !.Path = s.rest], err |-> Nil]

\* url.QueryEscape, one character: letters, digits, "-", "_", "." and "~" are
\* kept, a space becomes "+", the others their percent-encoding.
escape(c) ==
    IF c \in Letters \cup Digits \cup {"-", "_", ".", "~"} THEN c
    ELSE IF c = " " THEN "+"
    ELSE IF c = ":" THEN "%3A"
    ELSE IF c = "/" THEN "%2F"
    ELSE IF c = "?" THEN "%3F"
    ELSE IF c = "=" THEN "%3D"
    ELSE IF c = "&" THEN "%26"
    ELSE "%25"

RECURSIVE QueryEscapeFrom(_, _)
QueryEscapeFrom(s, i) ==
    IF i > Len(s) THEN ""
    ELSE escape(CharAt(s, i)) \o QueryEscapeFrom(s, i + 1)

QueryEscape(s) == QueryEscapeFrom(s, 1)

\* The keys GetAuthorizationURL sets, in the sorted order of Values.Encode.
QueryKeys ==
    <<"client_id", "domain", "provider", "redirect_uri", "response_type", "state">>

\* url.Values.Encode of a map with one value per key: "k=v" pairs joined by
\* "&", sorted by key, keys and values escaped.
RECURSIVE EncodeFrom(_, _, _)
EncodeFrom(query, i, buf) ==
    IF i > Len(QueryKeys) THEN buf
    ELSE LET k == QueryKeys[i] IN
         IF k \in DOMAIN query
         THEN EncodeFrom(query, i + 1,
                         buf \o (IF buf = "" THEN "" ELSE "&")
                             \o QueryEscape(k) \o "=" \o QueryEscape(query[k]))
         ELSE EncodeFrom(query, i + 1, buf)

Encode(query) == EncodeFrom(query, 1, "")

----------------------------------------------------------------------------
(* Package sso: the client *)

DefaultEndpoint == "https://api.workos.com"
DefaultHTTPClient == "http.Client{Timeout: 15s}"

\* The zero value sso.Client{}.
ZeroClient ==
    [APIKey |-> "", ProjectID |-> "", RedirectURI |-> "", Endpoint |-> "",
     HTTPClient |-> Nil, once |-> FALSE,
     authorizationURLEndpoint |-> "", profileEndpoint |-> ""]

\* A connection type.
GoogleOAuth == "GoogleOAuth"

\* The zero value GetAuthorizationURLOptions{}.
ZeroOptions == [Domain |-> "", Provider |-> "", State |-> ""]

\* A *url.URL: <<>> is nil, <<u>> points to u.
NilURL == <<>>

NoSSOCall == [op |-> "none", opts |-> ZeroOptions, url |-> NilURL, err |-> Nil]

\* Inputs
ProjectIDs == {"", "project_123"}
RedirectURIs == {"https://example.com/sso/workos/callback"}
Endpoints == {"", "https://api.workos.com/", "http://localhost:8080", "api.workos.com"}
Options ==
    [Domain : {"", "lyft.com"}, Provider : {"", GoogleOAuth}, State : {"", "custom state"}]

\* The caller sets the exported fields of its client.
SetClientFields(projectID, redirectURI, endpoint) ==
    /\ sso' = [sso EXCEPT !.ProjectID = projectID,
                          !.RedirectURI = redirectURI,
                          !.Endpoint = endpoint]
    /\ ssoRet' = [op |-> "SetClientFields", opts |-> ZeroOptions, url |-> NilURL, err |-> Nil]
    /\ UNCHANGED <<pc, event, heap, globalMetadata, now, client, ret>>

\* func (c *Client) init()
init(c) ==
    LET Endpoint == TrimSuffix(IF c.Endpoint = "" THEN DefaultEndpoint ELSE c.Endpoint, "/")
    IN  [c EXCEPT !.Endpoint = Endpoint,
                  !.authorizationURLEndpoint = Endpoint \o "/sso/authorize",
                  !.profileEndpoint = Endpoint \o "/sso/token",
                  !.HTTPClient = IF c.HTTPClient = Nil THEN DefaultHTTPClient
                                 ELSE c.HTTPClient]

\* c.once.Do(c.init)
onceDo(c) == IF c.once THEN c ELSE [init(c) EXCEPT !.once = TRUE]

Set(query, key, value) == [x \in DOMAIN query \cup {key} |-> IF x = key THEN value ELSE query[x]]

\* GetAuthorizationURL with the test for missing arguments on either option.
AuthorizationURLEither(c, opts) ==
    LET query == Set(Set(Set(EmptyMap, "client_id", c.ProjectID),
                         "redirect_uri", c.RedirectURI),
                     "response_type", "code")
        withProvider == IF opts.Provider # "" THEN Set(query, "provider", opts.Provider)
                        ELSE query
        withDomain == IF opts.Domain # "" THEN Set(withProvider, "domain", opts.Domain)
                      ELSE withProvider
        withState == IF opts.State # "" THEN Set(withDomain, "state", opts.State)
                     ELSE withDomain
        parsed == ParseRequestURI(c.authorizationURLEndpoint)
    IN  IF opts.Domain = "" \/ opts.Provider = ""
        THEN [url |-> NilURL, err |-> ErrIncomplete]
        ELSE IF parsed.err # Nil THEN [url |-> NilURL, err |-> parsed.err]
        ELSE [url |-> <<[parsed.u EXCEPT !.RawQuery = Encode(withState)]>>, err |-> Nil]

\* The body of GetAuthorizationURL after c.once.Do(c.init): the URL and the
\* error it returns.
AuthorizationURL(c, opts) ==
    LET query == Set(Set(Set(EmptyMap, "client_id", c.ProjectID),
                         "redirect_uri", c.RedirectURI),
                     "response_type", "code")
        withProvider == IF opts.Provider # "" THEN Set(query, "provider", opts.Provider)
                        ELSE query
        withDomain == IF opts.Domain # "" THEN Set(withProvider, "domain", opts.Domain)
                      ELSE withProvider
        withState == IF opts.State # "" THEN Set(withDomain, "state", opts.State)
                     ELSE withDomain
        parsed == ParseRequestURI(c.authorizationURLEndpoint)
    IN  IF opts.Domain = "" /\ opts.Provider = ""
        THEN [url |-> NilURL, err |-> ErrIncomplete]
        ELSE IF parsed.err # Nil THEN [url |-> NilURL, err |-> parsed.err]
        ELSE [url |-> <<[parsed.u EXCEPT !.RawQuery = Encode(withState)]>>, err |-> Nil]

\* func (c *Client) GetAuthorizationURL(opts GetAuthorizationURLOptions) (*url.URL, error)
GetAuthorizationURL(opts) ==
    LET c == onceDo(sso)
        r == AuthorizationURL(c, opts)
    IN  /\ sso' = c
        /\ ssoRet' = [op |-> "GetAuthorizationURL", opts |-> opts, url |-> r.url, err |-> r.err]
        /\ UNCHANGED <<pc, event, heap, globalMetadata, now, client, ret>>

----------------------------------------------------------------------------
(* The clock *)

Tick ==
    /\ now < MaxClock
    /\ now' = now + 1
    /\ UNCHANGED <<pc, event, heap, globalMetadata, client, ret, sso, ssoRet>>

----------------------------------------------------------------------------
(* Specification *)

Init ==
    /\ pc = "start"
    /\ event = ZeroEvent
    /\ heap = <<>>
    /\ globalMetadata \in GlobalMetadataChoices
    /\ now = 1
    /\ client = [calls |-> 0, body |-> EmptyMap, res |-> Nil]
    /\ ret = NoCall
    /\ sso = ZeroClient
    /\ ssoRet = NoSSOCall

\* Events built by NewEvent, their metadata added and published.
Next ==
    \/ \E action \in Actions, actionType \in ActionTypes : NewEvent(action, actionType)
    \/ \E metadata \in Batches : AddMetadata(metadata)
    \/ Publish

Spec == Init /\ [][Next]_vars

\* Events seeded up to the cap of the metadata.
NextCap ==
    \/ \E action \in Actions, actionType \in ActionTypes, n \in SeedSizes :
          NewEventWithMetadata(action, actionType, Seed(n))
    \/ \E metadata \in CapBatches : AddMetadata(metadata)
    \/ Publish

SpecCap == Init /\ [][NextCap]_vars

\* The fields of an event over time.
NextFields ==
    \/ \E action \in Actions, actionType \in ActionTypes : NewEvent(action, actionType)
    \/ SetGroup(user)
    \/ \E d \in Auditables : SetActor(d)
    \/ SetTarget(tweet)
    \/ SetLocation("1.1.1.1")
    \/ AddMetadata("body" :> Lit("What time is the event?"))
    \/ Publish
    \/ Tick

SpecFields == Init /\ [][NextFields]_vars

\* Events built from an HTTP request.
NextHTTP ==
    \/ \E action \in Actions, actionType \in ActionTypes, r \in Requests :
          NewEventWithHTTP(action, actionType, r)
    \/ SetActor(user)
    \/ Publish

SpecHTTP == Init /\ [][NextHTTP]_vars

\* A client configured by its caller and asked for authorization URLs.
NextSSO ==
    \/ \E projectID \in ProjectIDs, redirectURI \in RedirectURIs, endpoint \in Endpoints :
          SetClientFields(projectID, redirectURI, endpoint)
    \/ \E opts \in Options : GetAuthorizationURL(opts)

SpecSSO == Init /\ [][NextSSO]_vars

----------------------------------------------------------------------------
(* Properties *)

\* The effect on a map of one entry of a batch, the cap left aside.
Apply(m, key, value) ==
    IF value.kind = "auditable"
    THEN [x \in DOMAIN m \cup {NameKey(key), IdKey(key)} |->
             IF x = IdKey(key) THEN Lit(value.id)
             ELSE IF x = NameKey(key) THEN Lit(value.name)
             ELSE m[x]]
    ELSE [x \in DOMAIN m \cup {key} |-> IF x = key THEN value ELSE m[x]]

\* The map after the first i entries of a batch, the cap left aside.
RECURSIVE Applied(_, _, _, _)
Applied(m, metadata, order, i) ==
    IF i = 0 THEN m
    ELSE Apply(Applied(m, metadata, order, i - 1), order[i], metadata[order[i]])

IsLiteral(v) == v.kind # "auditable"

\* The last call was an AddMetadata.
AddedMetadata == ret.op = "AddMetadata"

\* The last call was a Publish whose serialization succeeded: the transport
\* holds its record.
Published == ret.op = "Publish" /\ ret.err # ErrMarshal

\* C1: whatever AddMetadata and Publish calls were made on an event, its
\* metadata holds at most 500 keys.
C1_MetadataAtMostCap ==
    pc = "built" => len(Metadata) <= MetadataCap

\* C2: when AddMetadata reaches an entry of its batch with the metadata
\* holding 500 entries, it returns the capacity error and the metadata is
\* what the entries before that one made it: that entry and the later ones are
\* not applied, the earlier ones stay.  On an event of 499 entries a batch of
\* 3 literals under new keys ends with the error and 500 entries, in every
\* order.
C2_CapacityStopsBatch ==
    AddedMetadata =>
        /\ \A i \in 1..Len(ret.order) :
              ( /\ len(Applied(ret.pre, ret.arg, ret.order, i - 1)) = MetadataCap
                /\ \A j \in 1..(i - 1) :
                      len(Applied(ret.pre, ret.arg, ret.order, j - 1)) < MetadataCap )
              => /\ ret.err = ErrCapacity
                 /\ Metadata = Applied(ret.pre, ret.arg, ret.order, i - 1)
        /\ ( /\ len(ret.pre) = MetadataCap - 1
             /\ len(ret.arg) = 3
             /\ \A k \in DOMAIN ret.arg : IsLiteral(ret.arg[k]) /\ k \notin DOMAIN ret.pre )
           => /\ ret.err = ErrCapacity
              /\ len(Metadata) = MetadataCap
              /\ \E k \in DOMAIN ret.arg : DOMAIN Metadata = DOMAIN ret.pre \cup {k}

\* An event of 499 entries was given 3 new literals: error, 500 entries.
C2_Witness ==
    /\ AddedMetadata
    /\ len(ret.pre) = MetadataCap - 1
    /\ len(ret.arg) = 3
    /\ \A k \in DOMAIN ret.arg : IsLiteral(ret.arg[k]) /\ k \notin DOMAIN ret.pre
    /\ ret.err = ErrCapacity
    /\ len(Metadata) = MetadataCap

\* C3: AddMetadata returns the capacity error exactly when applying an entry
\* of the batch would make the metadata exceed 500 entries.
C3_ErrorIffExceeds ==
    AddedMetadata =>
        ( ret.err = ErrCapacity
          <=> \E i \in 1..Len(ret.order) :
                 len(Applied(ret.pre, ret.arg, ret.order, i)) > MetadataCap )

C5_DefaultsInRecord ==
    Published =>
        \A k \in DOMAIN globalMetadata :
            /\ k \in DOMAIN client.body.metadata
            /\ client.body.metadata[k] = [json |-> "string", s |-> globalMetadata[k].name]

\* A record was published from an event that held its own value under a
\* default key.
C5_Witness ==
    /\ Published
    /\ \E k \in DOMAIN globalMetadata :
          /\ k \in DOMAIN ret.pre
          /\ ret.pre[k] # globalMetadata[k]
          /\ client.body.metadata[k].s = globalMetadata[k].name

\* C6 as claimed: the published record carries, under every key the event's
\* metadata held before Publish, the event's own value.
C6_PerEventValueKept ==
    Published =>
        \A k \in DOMAIN ret.pre :
            /\ k \in DOMAIN client.body.metadata
            /\ client.body.metadata[k] = [json |-> "string", s |-> ret.pre[k].name]

\* C6 as amended: the published record carries the event's own value under
\* every key the event's metadata held before Publish that is not a key of
\* the default metadata.
C6_PerEventValueKeptOffDefaults ==
    Published =>
        \A k \in DOMAIN ret.pre \ DOMAIN globalMetadata :
            /\ k \in DOMAIN client.body.metadata
            /\ client.body.metadata[k] = [json |-> "string", s |-> ret.pre[k].name]

\* A record was published, with defaults set, from an event holding a key
\* of its own.
C6_Witness ==
    /\ Published
    /\ globalMetadata # EmptyMap
    /\ \E k \in DOMAIN ret.pre \ DOMAIN globalMetadata :
          client.body.metadata[k].s = ret.pre[k].name

\* C7: the constructor stamps OccuredAt with the time of construction, no
\* later call changes it, and every record published carries it.
C7_TimestampImmutable ==
    [][ /\ (pc = "start" /\ pc' = "built") => event'.OccuredAt = now
        /\ pc = "built" => event'.OccuredAt = event.OccuredAt
        /\ client'.calls # client.calls =>
              client'.body.occured_at = FormatTime(event.OccuredAt) ]_vars

\* A record was published, after the clock moved on, from an event whose
\* group, actor, target and location were set and metadata added.
C7_Witness ==
    /\ Published
    /\ now > event.OccuredAt
    /\ event.Group # "" /\ event.ActorID # "" /\ event.TargetID # ""
    /\ event.Location = "1.1.1.1"
    /\ "body" \in DOMAIN Metadata
    /\ client.body.occured_at = FormatTime(event.OccuredAt)

\* The metadata an event holds has a value json cannot encode.
HoldsUnencodable == \E k \in DOMAIN Metadata : Metadata[k].kind = "chan"

\* C8: when the metadata Publish serializes (the event's, the defaults merged
\* in) holds a value that cannot be encoded, Publish returns the
\* serialization error and does not call the transport; otherwise Publish
\* calls it and returns its result.
C8_MarshalErrorBeforeTransport ==
    [][ ret'.op = "Publish" =>
          IF HoldsUnencodable'
          THEN ret'.err = ErrMarshal /\ client' = client
          ELSE /\ client'.calls = client.calls + 1
               /\ ret'.err = client'.res ]_vars

\* A Publish failed on serialization after a record had been sent.
C8_Witness ==
    /\ ret.op = "Publish"
    /\ ret.err = ErrMarshal
    /\ HoldsUnencodable
    /\ client.calls = 1

\* C9: each Publish whose serialization succeeds calls the transport exactly
\* once, whatever the transport answers and whatever was sent before, and no
\* other call does.
C9_OneTransportCallPerPublish ==
    [][ client'.calls - client.calls =
          IF ret'.op = "Publish" /\ ~HoldsUnencodable' THEN 1 ELSE 0 ]_vars

\* Publish was called twice on one event and two records were sent, the
\* second to a transport that failed.
C9_Witness ==
    /\ Published
    /\ ret.err = ErrTransport
    /\ client.calls = 2

\* C10: NewEventWithHTTP returns an event located at the request's remote
\* address whose metadata holds http_method and request_url, user_agent
\* exactly when the User-Agent header is not empty, request_id exactly when
\* the X-Request-ID header is not empty, and nothing else.
C10_HTTPMetadata ==
    ret.op = "NewEventWithHTTP" =>
        LET r == ret.arg
            ua == IF "User-Agent" \in DOMAIN r.Header THEN r.Header["User-Agent"] ELSE ""
            id == IF "X-Request-ID" \in DOMAIN r.Header THEN r.Header["X-Request-ID"] ELSE ""
        IN  /\ event.Location = r.RemoteAddr
            /\ DOMAIN Metadata =
                  {"http_method", "request_url"}
                      \cup (IF ua # "" THEN {"user_agent"} ELSE {})
                      \cup (IF id # "" THEN {"request_id"} ELSE {})
            /\ Metadata["http_method"] = Lit(r.Method)
            /\ Metadata["request_url"] = Lit(r.URL.Scheme \o "://" \o r.URL.Host \o r.URL.Path)
            /\ ua # "" => Metadata["user_agent"] = Lit(ua)
            /\ id # "" => Metadata["request_id"] = Lit(id)

\* An event was built from a request with neither header: its metadata
\* holds the two keys only.
C10_Witness ==
    /\ ret.op = "NewEventWithHTTP"
    /\ DOMAIN ret.arg.Header = {}
    /\ event.Location = ret.arg.RemoteAddr
    /\ DOMAIN Metadata = {"http_method", "request_url"}

\* C11: SetActor(d) sets the actor name to d's display name and the actor
\* identifier to d's identifier and nothing else of the event; called on an
\* event whose actor is already d it leaves the event and its metadata as they
\* are; no other call on a built event touches the actor, so the actor is
\* always that of the last SetActor.
C11_SetActorLastWins ==
    [][ /\ ret'.op = "SetActor" =>
              /\ event'.ActorName = ret'.arg.name
              /\ event'.ActorID = ret'.arg.id
              /\ event' = [event EXCEPT !.ActorName = ret'.arg.name,
                                        !.ActorID = ret'.arg.id]
              /\ heap' = heap
              /\ (event.ActorName = ret'.arg.name /\ event.ActorID = ret'.arg.id)
                    => event' = event
        /\ (pc = "built" /\ ret'.op # "SetActor") =>
              /\ event'.ActorName = event.ActorName
              /\ event'.ActorID = event.ActorID ]_vars

\* SetActor was called on an event that had been published with another
\* actor: the event carries the actor of this last call.
C11_Witness ==
    /\ ret.op = "SetActor"
    /\ event.ActorName = ret.arg.name
    /\ event.ActorID = ret.arg.id
    /\ client.calls > 0
    /\ client.body.actor_id # ""
    /\ client.body.actor_id # event.ActorID

\* The keys an AddMetadata of the batch may write.
WrittenKeys(metadata) ==
    UNION { IF IsLiteral(metadata[k]) THEN {k} ELSE {NameKey(k), IdKey(k)} :
            k \in DOMAIN metadata }

----------------------------------------------------------------------------
(* C13 *)

\* The query string holding client_id, redirect_uri and response_type=code,
\* and domain, provider and state each exactly when the option is not empty.
ExpectedQuery(c, o) ==
    "client_id=" \o QueryEscape(c.ProjectID)
    \o (IF o.Domain # "" THEN "&domain=" \o QueryEscape(o.Domain) ELSE "")
    \o (IF o.Provider # "" THEN "&provider=" \o QueryEscape(o.Provider) ELSE "")
    \o "&redirect_uri=" \o QueryEscape(c.RedirectURI)
    \o "&response_type=code"
    \o (IF o.State # "" THEN "&state=" \o QueryEscape(o.State) ELSE "")

\* The URL returned is on the client's /sso/authorize endpoint and carries
\* the expected query.
URLOnEndpoint ==
    /\ Len(ssoRet.url) = 1
    /\ HasSuffix(sso.authorizationURLEndpoint, "/sso/authorize")
    /\ URLString(ssoRet.url[1]) = sso.authorizationURLEndpoint
    /\ ssoRet.url[1].RawQuery = ExpectedQuery(sso, ssoRet.opts)

\* C13, as stated: GetAuthorizationURL returns an error and no URL exactly
\* when both Domain and Provider of the options are empty; otherwise it
\* returns a URL on the client's /sso/authorize endpoint with the expected
\* query.
C13_ErrorIffBothEmpty ==
    ssoRet.op = "GetAuthorizationURL" =>
        LET bothEmpty == ssoRet.opts.Domain = "" /\ ssoRet.opts.Provider = ""
        IN  /\ bothEmpty => ssoRet.err # Nil /\ Len(ssoRet.url) = 0
            /\ ~bothEmpty => ssoRet.err = Nil /\ URLOnEndpoint

\* C13, amended: GetAuthorizationURL returns an error and no URL exactly
\* when both Domain and Provider of the options are empty or the client's
\* authorization endpoint is not a valid request URI; otherwise it returns a
\* URL on the client's /sso/authorize endpoint whose query holds client_id,
\* redirect_uri and response_type=code, and provider, domain and state each
\* if and only if the corresponding option is non-empty.
C13_ErrorIffBothEmptyOrBadEndpoint ==
    ssoRet.op = "GetAuthorizationURL" =>
        LET bothEmpty == ssoRet.opts.Domain = "" /\ ssoRet.opts.Provider = ""
            badEndpoint == ParseRequestURI(sso.authorizationURLEndpoint).err # Nil
        IN  /\ sso.once
            /\ (bothEmpty \/ badEndpoint) => ssoRet.err # Nil /\ Len(ssoRet.url) = 0
            /\ bothEmpty => ssoRet.err = ErrIncomplete
            /\ ~(bothEmpty \/ badEndpoint) => ssoRet.err = Nil /\ URLOnEndpoint

\* A URL was returned for a domain alone, by a client whose endpoint was
\* given with a trailing slash.
C13_Witness ==
    /\ ssoRet.op = "GetAuthorizationURL"
    /\ ssoRet.err = Nil
    /\ ssoRet.opts = [Domain |-> "lyft.com", Provider |-> "", State |-> ""]
    /\ Len(ssoRet.url) = 1
    /\ URLString(ssoRet.url[1]) = "https://api.workos.com/sso/authorize"
    /\ ssoRet.url[1].RawQuery =
          "client_id=project_123&domain=lyft.com&redirect_uri=https%3A%2F%2Fexample.com%2Fsso%2Fworkos%2Fcallback&response_type=code"

====
